---- MODULE Spec2Model ----
(***************************************************************************)
(* Model of scripts/deploy/deploy.py: the release script of the plugin.    *)
(*                                                                         *)
(* One process run is the top-level code of the script (lines 32-118),     *)
(* one action per statement group; `pc` is the position in the script and  *)
(* every external command (git, pants, zip, the uploader, curl | grep) is  *)
(* a nondeterministic choice of its exit status.  An exception nothing     *)
(* catches ends the interpreter with exit code 1, as does exit(1).         *)
(* Strings are sequences of one-character strings so that formatting and   *)
(* substring search are computed, not assumed.  The script is Python 2     *)
(* (subprocess output is str).                                             *)
(*                                                                         *)
(* The manifest file outlives a process: NewRun starts the next process    *)
(* on whatever the previous one left on disk.                              *)
(***************************************************************************)
EXTENDS Integers, Sequences, FiniteSets, TLC

\* ---------------------------------------------------------------- bounds
\* Number of consecutive process runs explored.
MaxRuns == 2

\* ------------------------------------------------------------- constants
CHANNEL_BLEEDING_EDGE == "BleedingEdge"
CHANNEL_STABLE == "Stable"
NoChannel == "unset"

\* ---------------------------------------------------------- input domains
\* Text of the committed manifest's <version> element.
Versions == { <<"1", ".", "2", ".", "3">>, <<"3">> }
\* Values `git rev-parse HEAD` can print.
Shas == { <<"a", "b", "c", "d", "1", "2", "3">>, <<"c">> }
\* Values of --tag ('' is the default).
Tags == { <<>>, <<"v", "1">> }
\* What `curl REPO` prints (empty when curl fails).
Pages ==
    { <<>>,
      <<"1", ".", "2", ".", "3", ".", "a", "b", "c", "d", "1", "2", "3">>,
      <<"x", "c", "y">> }
\* Exit statuses of the upload command.
UploadRcs == {0, 1}

\* A manifest file: well-formed XML with or without a version element, or
\* a file cut short by a failed write.
Manifest(wf, has, text) == [wellformed |-> wf, hasVersion |-> has, text |-> text]
TruncatedManifest == Manifest(FALSE, FALSE, <<>>)
CommittedManifests ==
    { Manifest(TRUE, TRUE, v) : v \in Versions } \cup { Manifest(TRUE, FALSE, <<>>) }

\* A name of the script that may be unbound (sha), or an element that
\* root.find may not find (version).
Unbound == [defined |-> FALSE, val |-> <<>>]
Bound(v) == [defined |-> TRUE, val |-> v]

VARIABLES
    run,            \* index of the current process run
    committed,      \* the manifest as git has it (what git checkout restores)
    manifest,       \* the manifest file on disk
    startManifest,  \* the manifest file when the current process started
    tag,            \* args.tag
    headSha,        \* what git rev-parse HEAD prints in this run
    page,           \* what curl REPO prints in this run
    pc,             \* position in the script
    version,        \* root.find('version') and its .text
    channel,
    sha,
    zip_name,
    upload_cmd,     \* the channel and file the upload command is given
    pending,        \* an exception raised inside the try block is in flight
    exitCode,       \* process exit code; -1 while running
    error,          \* what ended the process
    log,            \* logger records, in order
    events,         \* external effects of the run, in order
    uploadRc        \* exit status the upload command returned; -1 if not run

vars == << run, committed, manifest, startManifest, tag, headSha, page, pc,
           version, channel, sha, zip_name, upload_cmd, pending, exitCode,
           error, log, events, uploadRc >>

Event(op, ok) == [op |-> op, ok |-> ok]

\* ------------------------------------------------------------ pure parts
\* args.tag selects the channel (lines 52-55).
SelectChannel(t) == IF t # <<>> THEN CHANNEL_STABLE ELSE CHANNEL_BLEEDING_EDGE

\* A slip in the format string of line 59: "{}{}" for "{}.{}".
AppendSha_NoSeparator(text, s) == text \o s

\* "{}.{}".format(version.text, sha) (line 59).
AppendSha(text, s) == text \o <<".">> \o s

\* 'pants_{}.zip'.format(version.text) (line 65).
ZipName(text) == <<"p", "a", "n", "t", "s", "_">> \o text \o <<".", "z", "i", "p">>

\* grep: does the pattern occur in the input (line 114).
Contains(text, s) ==
    \E i \in 1..(Len(text) - Len(s) + 1) : SubSeq(text, i, i + Len(s) - 1) = s

\* The interpreter ends: exit(code), an uncaught exception, or end of script.
Exit(code, why) ==
    /\ pc' = "exited"
    /\ exitCode' = code
    /\ error' = why

\* ----------------------------------------------------------------- state
Init ==
    /\ run = 1
    /\ committed \in CommittedManifests
    /\ manifest = committed
    /\ startManifest = manifest
    /\ tag \in Tags
    /\ headSha \in Shas
    /\ page \in Pages
    /\ pc = "checkout"
    /\ version = Unbound
    /\ channel = NoChannel
    /\ sha = Unbound
    /\ zip_name = <<>>
    /\ upload_cmd = [channel |-> NoChannel, file |-> <<>>]
    /\ pending = FALSE
    /\ exitCode = -1
    /\ error = "none"
    /\ log = <<>>
    /\ events = <<>>
    /\ uploadRc = -1

\* Line 42 with subprocess.call for check_output: a failed checkout is not
\* noticed and the script goes on to parse the file as it is.
CheckoutAtStart_Unchecked ==
    /\ pc = "checkout"
    /\ \E ok \in BOOLEAN :
        /\ events' = Append(events, Event("checkout", ok))
        /\ manifest' = IF ok THEN committed ELSE manifest
        /\ pc' = "parse"
    /\ UNCHANGED << run, committed, startManifest, tag, headSha, page, version,
                    channel, sha, zip_name, upload_cmd, pending, exitCode,
                    error, log, uploadRc >>

\* line 42: subprocess.check_output('git checkout PLUGIN_XML')
CheckoutAtStart ==
    /\ pc = "checkout"
    /\ \E ok \in BOOLEAN :
        /\ events' = Append(events, Event("checkout", ok))
        /\ IF ok
           THEN /\ manifest' = committed
                /\ pc' = "parse"
                /\ UNCHANGED << exitCode, error >>
           ELSE /\ Exit(1, "CalledProcessError")
                /\ UNCHANGED manifest
    /\ UNCHANGED << run, committed, startManifest, tag, headSha, page, version,
                    channel, sha, zip_name, upload_cmd, pending, log, uploadRc >>

\* lines 44-50: parse the manifest, find the version element, exit(1) if absent
ParseManifest ==
    /\ pc = "parse"
    /\ IF ~manifest.wellformed
       THEN /\ Exit(1, "ParseError")
            /\ UNCHANGED << version, log >>
       ELSE IF ~manifest.hasVersion
       THEN /\ log' = Append(log, "version tag not found")
            /\ Exit(1, "exit(1): version")
            /\ UNCHANGED version
       ELSE /\ version' = Bound(manifest.text)
            /\ pc' = "channel"
            /\ UNCHANGED << exitCode, error, log >>
    /\ UNCHANGED << run, committed, manifest, startManifest, tag, headSha, page,
                    channel, sha, zip_name, upload_cmd, pending, events, uploadRc >>

\* lines 52-55: if args.tag: Stable, else BleedingEdge
ChooseChannel ==
    /\ pc = "channel"
    /\ channel' = SelectChannel(tag)
    /\ pc' = IF channel' = CHANNEL_STABLE THEN "release" ELSE "get_head_sha"
    /\ UNCHANGED << run, committed, manifest, startManifest, tag, headSha, page,
                    version, sha, zip_name, upload_cmd, pending, exitCode,
                    error, log, events, uploadRc >>

\* get_head_sha without the exit(1) of line 27: the failure is logged and
\* the (empty) output is returned.
get_head_sha_NoExit ==
    /\ pc = "get_head_sha"
    /\ \E ok \in BOOLEAN :
        /\ events' = Append(events, Event("rev-parse", ok))
        /\ sha' = IF ok THEN Bound(headSha) ELSE Bound(<<>>)
        /\ log' = IF ok THEN log ELSE Append(log, "git rev-parse HEAD failed.")
        /\ pc' = "append"
    /\ UNCHANGED << run, committed, manifest, startManifest, tag, headSha, page,
                    version, channel, zip_name, upload_cmd, pending, exitCode,
                    error, uploadRc >>

\* lines 57, 21-29: sha = get_head_sha(); exit(1) when git rev-parse fails
get_head_sha ==
    /\ pc = "get_head_sha"
    /\ \E ok \in BOOLEAN :
        /\ events' = Append(events, Event("rev-parse", ok))
        /\ IF ok
           THEN /\ sha' = Bound(headSha)
                /\ pc' = "append"
                /\ UNCHANGED << exitCode, error, log >>
           ELSE /\ log' = Append(log, "git rev-parse HEAD failed.")
                /\ Exit(1, "exit(1): rev-parse")
                /\ UNCHANGED sha
    /\ UNCHANGED << run, committed, manifest, startManifest, tag, headSha, page,
                    version, channel, zip_name, upload_cmd, pending, uploadRc >>

\* lines 58-59: version.text = "{}.{}".format(version.text, sha)
AppendShaToVersion ==
    /\ pc = "append"
    /\ log' = Append(log, "Append current git sha")
    /\ version' = Bound(AppendSha(version.val, sha.val))
    /\ pc' = "write"
    /\ UNCHANGED << run, committed, manifest, startManifest, tag, headSha, page,
                    channel, sha, zip_name, upload_cmd, pending, exitCode,
                    error, events, uploadRc >>

\* line 61: tree.write(PLUGIN_XML); outside the try block
WriteManifest ==
    /\ pc = "write"
    /\ \E ok \in BOOLEAN :
        /\ events' = Append(events, Event("write", ok))
        /\ IF ok
           THEN /\ manifest' = Manifest(TRUE, TRUE, version.val)
                /\ pc' = "release"
                /\ UNCHANGED << exitCode, error >>
           ELSE /\ manifest' \in { manifest, TruncatedManifest }
                /\ Exit(1, "IOError")
    /\ UNCHANGED << run, committed, startManifest, tag, headSha, page, version,
                    channel, sha, zip_name, upload_cmd, pending, log, uploadRc >>

\* lines 63-65: log the release, zip_name = 'pants_{}.zip'.format(version.text)
NameArtifact ==
    /\ pc = "release"
    /\ log' = Append(log, "Releasing")
    /\ zip_name' = ZipName(version.val)
    /\ pc' = "build"
    /\ UNCHANGED << run, committed, manifest, startManifest, tag, headSha, page,
                    version, channel, sha, upload_cmd, pending, exitCode,
                    error, events, uploadRc >>

\* lines 69-72: check_output(build_cmd) inside try
Build ==
    /\ pc = "build"
    /\ \E ok \in BOOLEAN :
        /\ events' = Append(events, Event("build", ok))
        /\ pending' = ~ok
        /\ pc' = IF ok THEN "package" ELSE "finally"
    /\ log' = Append(log, "build_cmd")
    /\ UNCHANGED << run, committed, manifest, startManifest, tag, headSha, page,
                    version, channel, sha, zip_name, upload_cmd, exitCode,
                    error, uploadRc >>

\* lines 74-87: check_output(packaging_cmd) inside try
Package ==
    /\ pc = "package"
    /\ \E ok \in BOOLEAN :
        /\ events' = Append(events, Event("package", ok))
        /\ pending' = ~ok
        /\ log' = IF ok THEN log \o << "Packaging into a zip", "built successfully" >>
                        ELSE Append(log, "Packaging into a zip")
    /\ pc' = "finally"
    /\ UNCHANGED << run, committed, manifest, startManifest, tag, headSha, page,
                    version, channel, sha, zip_name, upload_cmd, exitCode,
                    error, uploadRc >>

\* The restore placed after the try block instead of in a finally clause:
\* an exception of the build or the packaging skips it.
RestoreManifest_AfterTry ==
    /\ pc = "finally"
    /\ IF pending
       THEN /\ Exit(1, "CalledProcessError")
            /\ UNCHANGED << manifest, events >>
       ELSE \E ok \in BOOLEAN :
            /\ events' = Append(events, Event("checkout", ok))
            /\ IF ~ok
               THEN /\ Exit(1, "CalledProcessError")
                    /\ UNCHANGED manifest
               ELSE /\ manifest' = committed
                    /\ pc' = "upload_cmd"
                    /\ UNCHANGED << exitCode, error >>
    /\ UNCHANGED << run, committed, startManifest, tag, headSha, page, version,
                    channel, sha, zip_name, upload_cmd, pending, log, uploadRc >>

\* The restore with subprocess.call for check_output: a failed checkout is
\* not noticed.
RestoreManifest_Unchecked ==
    /\ pc = "finally"
    /\ \E ok \in BOOLEAN :
        /\ events' = Append(events, Event("checkout", ok))
        /\ manifest' = IF ok THEN committed ELSE manifest
        /\ IF pending
           THEN Exit(1, "CalledProcessError")
           ELSE /\ pc' = "upload_cmd"
                /\ UNCHANGED << exitCode, error >>
    /\ UNCHANGED << run, committed, startManifest, tag, headSha, page, version,
                    channel, sha, zip_name, upload_cmd, pending, log, uploadRc >>

\* The try block with an except clause that swallows the error of the
\* build or the packaging: the script goes on after the restore.
RestoreManifest_Swallow ==
    /\ pc = "finally"
    /\ \E ok \in BOOLEAN :
        /\ events' = Append(events, Event("checkout", ok))
        /\ IF ~ok
           THEN /\ Exit(1, "CalledProcessError")
                /\ UNCHANGED manifest
           ELSE /\ manifest' = committed
                /\ pc' = "upload_cmd"
                /\ UNCHANGED << exitCode, error >>
    /\ UNCHANGED << run, committed, startManifest, tag, headSha, page, version,
                    channel, sha, zip_name, upload_cmd, pending, log, uploadRc >>

\* lines 89-91: finally: check_output('git checkout PLUGIN_XML'); an
\* exception in flight goes on propagating once the block is done
RestoreManifest ==
    /\ pc = "finally"
    /\ \E ok \in BOOLEAN :
        /\ events' = Append(events, Event("checkout", ok))
        /\ IF ~ok
           THEN /\ Exit(1, "CalledProcessError")
                /\ UNCHANGED manifest
           ELSE /\ manifest' = committed
                /\ IF pending
                   THEN Exit(1, "CalledProcessError")
                   ELSE /\ pc' = "upload_cmd"
                        /\ UNCHANGED << exitCode, error >>
    /\ UNCHANGED << run, committed, startManifest, tag, headSha, page, version,
                    channel, sha, zip_name, upload_cmd, pending, log, uploadRc >>

\* lines 93-104: format upload_cmd; os.environ[...] raises KeyError when a
\* credential is not set
FormatUploadCmd ==
    /\ pc = "upload_cmd"
    /\ \E envSet \in BOOLEAN :
        IF envSet
        THEN /\ upload_cmd' = [channel |-> channel, file |-> zip_name]
             /\ pc' = "upload"
             /\ UNCHANGED << exitCode, error >>
        ELSE /\ Exit(1, "KeyError")
             /\ UNCHANGED upload_cmd
    /\ UNCHANGED << run, committed, manifest, startManifest, tag, headSha, page,
                    version, channel, sha, zip_name, pending, log, events,
                    uploadRc >>

\* Line 108 with subprocess.check_call for subprocess.call: a non-zero exit
\* status of the uploader raises CalledProcessError.
AfterUpload_Checked(rc) ==
    IF rc = 0
    THEN [pc |-> "verify", exitCode |-> exitCode, error |-> error]
    ELSE [pc |-> "exited", exitCode |-> 1, error |-> "CalledProcessError"]

\* line 108: what subprocess.call(upload_cmd) leaves in the script's state
\* when the command returns rc: the return value is dropped
AfterUpload(rc) ==
    [pc |-> "verify", exitCode |-> exitCode, error |-> error]

\* lines 106-108: subprocess.call(upload_cmd)
Upload ==
    /\ pc = "upload"
    /\ log' = Append(log, "Uploading...")
    /\ \E rc \in UploadRcs :
        /\ events' = Append(events, Event("upload", rc = 0))
        /\ uploadRc' = rc
        /\ pc' = AfterUpload(rc).pc
        /\ exitCode' = AfterUpload(rc).exitCode
        /\ error' = AfterUpload(rc).error
    /\ UNCHANGED << run, committed, manifest, startManifest, tag, headSha, page,
                    version, channel, sha, zip_name, upload_cmd, pending >>

\* lines 113-118: check_output('curl REPO | grep sha'); formatting the
\* command reads sha, a NameError when nothing bound it; then end of script
Verify ==
    /\ pc = "verify"
    /\ IF ~sha.defined
       THEN /\ Exit(1, "NameError")
            /\ UNCHANGED << log, events >>
       ELSE /\ events' = Append(events, Event("verify", Contains(page, sha.val)))
            /\ log' = Append(log, IF Contains(page, sha.val)
                                  THEN "Deploy succeeded."
                                  ELSE "Deploy failed")
            /\ Exit(0, "none")
    /\ UNCHANGED << run, committed, manifest, startManifest, tag, headSha, page,
                    version, channel, sha, zip_name, upload_cmd, pending,
                    uploadRc >>

\* The script is started again: a new process with new arguments, on the
\* manifest file the previous process left.
NewRun ==
    /\ pc = "exited"
    /\ run < MaxRuns
    /\ run' = run + 1
    /\ startManifest' = manifest
    /\ tag' \in Tags
    /\ headSha' \in Shas
    /\ page' \in Pages
    /\ pc' = "checkout"
    /\ version' = Unbound
    /\ channel' = NoChannel
    /\ sha' = Unbound
    /\ zip_name' = <<>>
    /\ upload_cmd' = [channel |-> NoChannel, file |-> <<>>]
    /\ pending' = FALSE
    /\ exitCode' = -1
    /\ error' = "none"
    /\ log' = <<>>
    /\ events' = <<>>
    /\ uploadRc' = -1
    /\ UNCHANGED << committed, manifest >>

Next ==
    \/ CheckoutAtStart
    \/ ParseManifest
    \/ ChooseChannel
    \/ get_head_sha
    \/ AppendShaToVersion
    \/ WriteManifest
    \/ NameArtifact
    \/ Build
    \/ Package
    \/ RestoreManifest
    \/ FormatUploadCmd
    \/ Upload
    \/ Verify
    \/ NewRun

Spec == Init /\ [][Next]_vars

\* ------------------------------------------------------------ properties
\* What the run did so far, read off the record of its external effects.
Invoked(op) == \E i \in DOMAIN events : events[i].op = op
Succeeded(op) == \E i \in DOMAIN events : events[i] = Event(op, TRUE)
Failed(op) == \E i \in DOMAIN events : events[i] = Event(op, FALSE)
Logged(msg) == \E i \in DOMAIN log : log[i] = msg
Exited == pc = "exited"
\* The release has been named (lines 63-65 are done).
Named == pc \in { "build", "package", "finally", "upload_cmd", "upload", "verify" }
            \/ (Exited /\ Logged("Releasing"))

\* C1: once the release is named, an empty --tag has given channel
\* BleedingEdge and the version "<manifest version>.<commit hash>", a
\* non-empty --tag has given channel Stable and the manifest version as it
\* is, with no write of the manifest; the artifact is
\* "pants_<release version>.zip".  With manifest version 1.2.3 and commit
\* abcd123 that is 1.2.3.abcd123 and pants_1.2.3.abcd123.zip.
C1_ChannelVersionArtifact ==
    Named =>
        /\ tag = <<>> =>
            /\ channel = "BleedingEdge"
            /\ version.val = committed.text \o <<".">> \o headSha
        /\ tag # <<>> =>
            /\ channel = "Stable"
            /\ version.val = committed.text
            /\ ~Invoked("write")
        /\ zip_name = <<"p", "a", "n", "t", "s", "_">> \o version.val
                        \o <<".", "z", "i", "p">>
        /\ (tag = <<>> /\ committed.text = <<"1", ".", "2", ".", "3">>
              /\ headSha = <<"a", "b", "c", "d", "1", "2", "3">>) =>
            /\ version.val = <<"1", ".", "2", ".", "3", ".",
                               "a", "b", "c", "d", "1", "2", "3">>
            /\ zip_name = <<"p", "a", "n", "t", "s", "_",
                            "1", ".", "2", ".", "3", ".",
                            "a", "b", "c", "d", "1", "2", "3",
                            ".", "z", "i", "p">>

\* A BleedingEdge release of manifest version 1.2.3 at commit abcd123 has
\* been named.
C1_Witness ==
    /\ pc = "build"
    /\ channel = "BleedingEdge"
    /\ committed.text = <<"1", ".", "2", ".", "3">>
    /\ sha = Bound(<<"a", "b", "c", "d", "1", "2", "3">>)

\* C2 as claimed: when the process exits the manifest file is what it was
\* when the process started, whichever of the commit-hash resolution, the
\* build, the packaging, a manifest checkout, the upload or the verify
\* failed.  (Runs whose write of the manifest itself failed are left out:
\* the claim does not speak of them.)
C2_ManifestAsAtStart ==
    (Exited /\ ~Failed("write")) => manifest = startManifest

\* C2 amended: when the process exits after every manifest checkout it
\* invoked succeeded and its write of the manifest, if any, completed, the
\* manifest file is the committed one, whichever of the commit-hash
\* resolution, the build, the packaging, the upload or the verify failed;
\* that is the file of the process start when the file was unmodified
\* then.  When the checkout of the finally block fails after the write,
\* the commit-suffixed manifest stays on disk.
C2_ManifestCommittedAtExit ==
    Exited =>
        /\ (~Failed("checkout") /\ ~Failed("write")) =>
            /\ manifest = committed
            /\ startManifest = committed => manifest = startManifest
        /\ (Succeeded("write") /\ Failed("checkout")) =>
            manifest = Manifest(TRUE, TRUE, committed.text \o <<".">> \o headSha)

\* A BleedingEdge run wrote the manifest, its build failed, and it has
\* exited with the manifest restored.
C2_Witness ==
    /\ Exited
    /\ Succeeded("write")
    /\ Failed("build")
    /\ ~Failed("checkout")
    /\ manifest = committed

\* C3: once the manifest is found to have no version element, or the
\* commit-hash resolution has failed, the process has exited with code 1,
\* the run has not written the manifest and has invoked none of build,
\* packaging, upload and verify.
C3_FatalPreconditionAborts ==
    LET noVersion == Succeeded("checkout") /\ ~committed.hasVersion /\ pc # "parse"
    IN  (noVersion \/ Failed("rev-parse")) =>
            /\ Exited
            /\ exitCode = 1
            /\ ~Invoked("write")
            /\ manifest = committed
            /\ ~Invoked("build") /\ ~Invoked("package")
            /\ ~Invoked("upload") /\ ~Invoked("verify")
            /\ pc # "verify"

\* The commit-hash resolution of a BleedingEdge run has failed.
C3_Witness ==
    /\ Failed("rev-parse")
    /\ Exited
    /\ Logged("git rev-parse HEAD failed.")

\* C4 as claimed, for the runs whose manifest checkouts, manifest write,
\* build and packaging succeeded and whose credentials are set: the process
\* exits with code 1 when the manifest has no version element or the
\* commit-hash resolution failed, and with code 0 otherwise, on the Stable
\* channel as on the BleedingEdge channel, also when the upload or the
\* verify failed.
C4_ExitCodes ==
    ( /\ Exited
      /\ ~Failed("checkout") /\ ~Failed("write")
      /\ ~Failed("build") /\ ~Failed("package")
      /\ error # "KeyError" ) =>
        exitCode = IF ~committed.hasVersion \/ Failed("rev-parse") THEN 1 ELSE 0

\* C5: the exit status of the upload command has no effect.  Once the
\* upload has returned, with whatever status, the script is at the verify
\* step, and when the process has exited, everything it did after the
\* upload and its exit code are given by the commit hash it holds and the
\* registry page alone: two runs that differ in the upload status only
\* agree on them.  With a commit hash resolved the verify command is
\* invoked and the exit code is 0 in both.
C5_UploadStatusIgnored ==
    uploadRc # -1 =>
        LET n == CHOOSE i \in DOMAIN events : events[i].op = "upload"
            later == SubSeq(events, n + 1, Len(events))
        IN  /\ pc \in { "verify", "exited" }
            /\ pc = "verify" => later = <<>> /\ exitCode = -1
            /\ Exited =>
                IF sha.defined
                THEN /\ later = << Event("verify", Contains(page, sha.val)) >>
                     /\ exitCode = 0
                     /\ error = "none"
                ELSE /\ later = <<>>
                     /\ exitCode = 1
                     /\ error = "NameError"

\* The upload command returned a non-zero status, the verify command was
\* invoked after it and the process has exited with code 0.
C5_Witness ==
    /\ uploadRc = 1
    /\ Exited
    /\ Invoked("verify")
    /\ exitCode = 0

\* C6: when the upload is about to be invoked or has been, a manifest
\* checkout of the finally block has succeeded after every write of the
\* manifest by the run and before the upload, and the manifest file is the
\* committed one: it does not carry the commit-suffixed version.
C6_RestoredBeforeUpload ==
    (pc = "upload" \/ Invoked("upload")) =>
        /\ manifest = committed
        /\ manifest.text # committed.text \o <<".">> \o headSha
        /\ \E i \in DOMAIN events :
            /\ i > 1
            /\ events[i] = Event("checkout", TRUE)
            /\ \A j \in DOMAIN events :
                /\ events[j].op = "write" => j < i
                /\ events[j].op = "upload" => i < j

\* A BleedingEdge run that wrote the manifest is about to invoke the upload.
C6_Witness ==
    /\ pc = "upload"
    /\ Succeeded("write")

\* C7 as claimed: a run whose build or packaging failed (and whose manifest
\* restore after it succeeded) has gone on to invoke the upload and the
\* verify when it exits.
C7_FailureGoesOnToUpload ==
    (Exited /\ (Failed("build") \/ Failed("package")) /\ ~Failed("checkout")) =>
        Invoked("upload") /\ Invoked("verify")

\* C7 amended: a failure of the build or of the packaging is not caught and
\* aborts the run: the manifest checkout of the finally block is invoked
\* next, and then the process ends with the uncaught CalledProcessError,
\* exit code 1; neither the upload nor the verify is invoked.
C7_FailureAbortsAfterRestore ==
    \A i \in DOMAIN events :
        (events[i] = Event("build", FALSE) \/ events[i] = Event("package", FALSE)) =>
            /\ ~Invoked("upload") /\ ~Invoked("verify")
            /\ pc \in { "finally", "exited" }
            /\ pc = "finally" => pending /\ Len(events) = i
            /\ Exited =>
                /\ Len(events) = i + 1
                /\ events[i + 1].op = "checkout"
                /\ exitCode = 1
                /\ error = "CalledProcessError"

\* The packaging of a BleedingEdge run failed, the manifest was restored
\* and the process has exited.
C7_Witness ==
    /\ Exited
    /\ Failed("package")
    /\ Succeeded("write")
    /\ manifest = committed

\* C8 as claimed: when a run that reached the verify step has exited, on
\* either channel, "Deploy succeeded." has been logged exactly when the
\* commit hash occurs in the registry page and "Deploy failed" exactly when
\* it does not.
C8_VerifyDecidedByPage ==
    (Exited /\ uploadRc # -1) =>
        /\ Logged("Deploy succeeded.") <=> Contains(page, headSha)
        /\ Logged("Deploy failed") <=> ~Contains(page, headSha)

\* C9: in every run of a sequence of runs, whatever the previous run left
\* on disk, a version is read only after the checkout of line 42 has
\* succeeded, so the version read is the committed one, and once the commit
\* hash is appended the version is the committed one with exactly one
\* suffix.
C9_VersionReadIsCommitted ==
    version.defined =>
        /\ events[1] = Event("checkout", TRUE)
        /\ version.val = IF Logged("Append current git sha")
                         THEN committed.text \o <<".">> \o headSha
                         ELSE committed.text

\* A second run started on a manifest that still carried the suffixed
\* version of the first, and has appended its commit hash.
C9_Witness ==
    /\ run = 2
    /\ startManifest.hasVersion
    /\ startManifest # committed
    /\ Logged("Append current git sha")
    /\ pc = "build"

\* C10 as claimed: when the script is at the verify step, on either
\* channel, the commit hash it searches for is bound, by a get_head_sha
\* call that succeeded earlier in the run.
C10_VerifyHasResolvedSha ==
    pc = "verify" => sha.defined /\ Succeeded("rev-parse")

====
